---- MODULE Spec2Model ----
(***************************************************************************)
(* Model of the classic_bpf crate: opcode composition and instruction      *)
(* builders (bpf_base.rs), the program descriptor BPFFProg::new             *)
(* (bpf_base.rs) and the two attachment back-ends (linux.rs, bsd.rs).       *)
(***************************************************************************)
EXTENDS Integers, Sequences, FiniteSets, TLC

VARIABLES
  cls,      \* the class constant the composition started from
  code,     \* the opcode value composed so far (a typed wrapper around a u16)
  frags,    \* the modifier fragments or-ed in so far, in order
  call,     \* arguments of the builder call that produced insn
  insn,     \* the BPFFilter built by bpf_stmt / bpf_jump, or NoInsn
  slice,    \* the caller's instruction array (&[BPFFilter]) in memory
  prog,     \* the BPFFProg built from slice, or NoProg
  variant,  \* the back-end compiled in: "linux" (linux.rs) or "bsd" (bsd.rs)
  socks,    \* kernel side of each socket: open, locked, installed filter
  last,     \* the last attach_filter / detach_filter call and its outcome
  prev,     \* the call before it
  expected  \* per socket, the filter the Ok results seen so far announce

codeVars == <<cls, code, frags, call, insn>>
progVars == <<slice, prog>>
sockVars == <<variant, socks, last, prev, expected>>
vars     == <<codeVars, progVars, sockVars>>

----------------------------------------------------------------------------
(* Integer widths *)

U8  == 256
U16 == 65536

\* a u32 is kept as its two 16-bit halves: the integers of the checker are
\* 32-bit signed and cannot hold u32::MAX
U32(hi, lo) == [hi |-> hi, lo |-> lo]

\* a | b on unsigned integers
RECURSIVE BitOr(_, _)
BitOr(a, b) ==
  IF a = 0 THEN b
  ELSE IF b = 0 THEN a
  ELSE (IF a % 2 = 1 \/ b % 2 = 1 THEN 1 ELSE 0) + 2 * BitOr(a \div 2, b \div 2)

\* a & b on unsigned integers
RECURSIVE BitAnd(_, _)
BitAnd(a, b) ==
  IF a = 0 \/ b = 0 THEN 0
  ELSE (IF a % 2 = 1 /\ b % 2 = 1 THEN 1 ELSE 0) + 2 * BitAnd(a \div 2, b \div 2)

----------------------------------------------------------------------------
(* mod bpf: typed opcode fragments *)

Wrap(t, n) == [ty |-> t, v |-> n]

LD   == Wrap("BPFLd", 0)
LDX  == Wrap("BPFLd", 1)
ST   == Wrap("BPFSt", 2)
STX  == Wrap("BPFSt", 3)
ALU  == Wrap("BPFAlu", 4)
JMP  == Wrap("BPFJmp", 5)
RET  == Wrap("BPFRet", 6)
MISC == Wrap("BPFMisc", 7)

W   == Wrap("BPFSize", 0)
H   == Wrap("BPFSize", 8)
B   == Wrap("BPFSize", 16)
IMM == Wrap("BPFMode", 0)
ABS == Wrap("BPFMode", 32)
IND == Wrap("BPFMode", 64)
MEM == Wrap("BPFMode", 96)
LEN == Wrap("BPFMode", 128)
MSH == Wrap("BPFMode", 160)

ADD == Wrap("BPFOp", 0)
SUB == Wrap("BPFOp", 16)
MUL == Wrap("BPFOp", 32)
DIV == Wrap("BPFOp", 48)
OR  == Wrap("BPFOp", 64)
AND == Wrap("BPFOp", 80)
LSH == Wrap("BPFOp", 96)
RSH == Wrap("BPFOp", 112)
NEG == Wrap("BPFOp", 128)

JA   == Wrap("BPFJmpOp", 0)
JEQ  == Wrap("BPFJmpOp", 16)
JGT  == Wrap("BPFJmpOp", 32)
JGE  == Wrap("BPFJmpOp", 48)
JSET == Wrap("BPFJmpOp", 64)

K == Wrap("BPFSrc", 0)
X == Wrap("BPFSrc", 8)
A == Wrap("BPFRetSrc", 8)

TAX == Wrap("BPFMiscOp", 0)
TXA == Wrap("BPFMiscOp", 128)

Classes == {LD, LDX, ST, STX, ALU, JMP, RET, MISC}

Modifiers == {W, H, B, IMM, ABS, IND, MEM, LEN, MSH,
              ADD, SUB, MUL, DIV, OR, AND, LSH, RSH, NEG,
              JA, JEQ, JGT, JGE, JSET, K, X, A, TAX, TXA}

\* the add_op! instantiations: <<instruction type, fragment type>>
add_op == { <<"BPFLd", "BPFSize">>,  <<"BPFLd", "BPFMode">>,
            <<"BPFAlu", "BPFOp">>,   <<"BPFAlu", "BPFSrc">>,
            <<"BPFJmp", "BPFJmpOp">>, <<"BPFJmp", "BPFSrc">>,
            <<"BPFRet", "BPFSrc">>,  <<"BPFRet", "BPFRetSrc">>,
            <<"BPFMisc", "BPFMiscOp">> }

\* the add_inst! instantiations: the types that implement BPFCode
add_inst == {"BPFLd", "BPFSt", "BPFAlu", "BPFJmp", "BPFRet", "BPFMisc"}

\* BPFCode::value
value(c) == c.v

bitor_sum(self, rhs) == [ty |-> self.ty, v |-> (self.v + rhs.v) % U16]

\* BitOr::bitor generated by add_op!
bitor(self, rhs) == [ty |-> self.ty, v |-> BitOr(self.v, rhs.v)]

----------------------------------------------------------------------------
(* BPFFilter and its builders *)

NoInsn == [code |-> -1, jt |-> -1, jf |-> -1, k |-> U32(0, 0)]
NoCall == [op |-> "none", k |-> U32(0, 0), jt |-> 0, jf |-> 0]

bpf_stmt_positional(c, k) ==
  [code |-> value(c), jt |-> k.lo % U8, jf |-> 0, k |-> U32(0, 0)]

bpf_stmt(c, k) == [code |-> value(c), jt |-> 0, jf |-> 0, k |-> k]

bpf_jump_swapped(c, k, jt, jf) == [code |-> value(c), jt |-> jf, jf |-> jt, k |-> k]

bpf_jump(c, k, jt, jf) == [code |-> value(c), jt |-> jt, jf |-> jf, k |-> k]

----------------------------------------------------------------------------
(* BPFFProg: {len: u16, filters: &BPFFilter} over a caller-owned array *)

\* The caller's array is n instructions laid out contiguously from address
\* base (addresses count instruction slots).  Its contents repeat body, so
\* that arrays of 65535 and more elements stay small in a state.
Elem(sl, i) == sl.body[(i % Len(sl.body)) + 1]

OutOfBounds == [code |-> -2, jt |-> -2, jf |-> -2, k |-> U32(0, 0)]

\* the instruction stored at an address, given the only live array
Mem(sl, addr) ==
  IF addr >= sl.base /\ addr < sl.base + sl.n THEN Elem(sl, addr - sl.base)
  ELSE OutOfBounds

\* <[T]>::len and <[T]>::as_ptr
len(sl) == sl.n
as_ptr(sl) == sl.base

\* `as u16`
as_u16(n) == n % U16

NoProg == [len |-> -1, filters |-> -1]

new_u8(filters) == [len |-> len(filters) % U8, filters |-> as_ptr(filters)]

\* BPFFProg::new
new(filters) == [len |-> as_u16(len(filters)), filters |-> as_ptr(filters)]

\* the i-th instruction (from 0) seen through the descriptor
ReadInsn(sl, p, i) == Mem(sl, p.filters + i)

\* the instruction view of a descriptor: len instructions from filters
View(sl, p) == [i \in 1..p.len |-> ReadInsn(sl, p, i - 1)]

\* the instructions of the documentation's example program
ExampleInsns ==
  { bpf_stmt(bitor(bitor(LD, B), ABS), U32(0, 6)),
    bpf_jump(bitor(bitor(JMP, JEQ), K), U32(0, 58), 0, 1),
    bpf_stmt(bitor(RET, K), U32(U16 - 1, U16 - 1)),
    bpf_stmt(bitor(RET, K), U32(0, 0)) }


----------------------------------------------------------------------------
(* The system calls behind the wrappers.  The wrappers only hand over their *)
(* arguments and look at the return value; what the call does to the socket *)
(* is the kernel's: Linux sk_attach_filter / sk_detach_filter               *)
(* (net/core/filter.c) and FreeBSD bpf_setf (sys/net/bpf.c).                *)

Errno == [EPERM |-> 1, ENOENT |-> 2, EBADF |-> 9, ENOMEM |-> 12,
          EFAULT |-> 14, EINVAL |-> 22]

Limits == [linux_BPF_MAXINSNS |-> 4096, bsd_BPF_MAXINSNS |-> 512,
           sizeof_sock_fprog |-> 16]

\* size_of::<BPFFProg>() on a 64-bit target: u16, 6 bytes of padding, pointer
size_of_BPFFProg == 16

\* std::ptr::null()
null == [len |-> -1, filters |-> 0]

NoFilter == [set |-> FALSE, insns |-> << >>]
Installed(f) == [set |-> TRUE, insns |-> f]

\* outcome of one system call: return value, errno, the socket's filter after
SysOk(f) == [rc |-> 0, errno |-> 0, filter |-> f]
SysErr(e, f) == [rc |-> -1, errno |-> e, filter |-> f]

BPF_CLASS(c) == c % 8

\* every jump lands inside the program
JumpsInRange(f) ==
  \A pc \in 1..Len(f) :
    BPF_CLASS(f[pc].code) = JMP.v =>
      /\ pc + f[pc].jt < Len(f)
      /\ pc + f[pc].jf < Len(f)

\* Linux bpf_check_classic: the last instruction is RET | K or RET | A
linux_check(f) ==
  /\ JumpsInRange(f)
  /\ f[Len(f)].code \in {6, 22}

\* FreeBSD bpf_validate: the last instruction is of class RET
bsd_validate(f) ==
  /\ JumpsInRange(f)
  /\ BPF_CLASS(f[Len(f)].code) = RET.v

Faults(f) == \E i \in 1..Len(f) : f[i] = OutOfBounds

\* libc::setsockopt(fd, SOL_SOCKET, optname, optval, optlen) on Linux
setsockopt(sk, mem, optname, optval, optlen, nomem) ==
  IF ~sk.open THEN SysErr(Errno.EBADF, sk.filter)
  ELSE IF optname = "SO_ATTACH_FILTER" THEN
    IF optlen # Limits.sizeof_sock_fprog THEN SysErr(Errno.EINVAL, sk.filter)
    ELSE IF optval = null THEN SysErr(Errno.EFAULT, sk.filter)
    ELSE IF sk.locked THEN SysErr(Errno.EPERM, sk.filter)
    ELSE IF optval.len = 0 \/ optval.len > Limits.linux_BPF_MAXINSNS
      THEN SysErr(Errno.EINVAL, sk.filter)
    ELSE IF nomem THEN SysErr(Errno.ENOMEM, sk.filter)
    ELSE LET f == View(mem, optval) IN
      IF Faults(f) THEN SysErr(Errno.EFAULT, sk.filter)
      ELSE IF ~linux_check(f) THEN SysErr(Errno.EINVAL, sk.filter)
      ELSE SysOk(Installed(f))
  ELSE \* SO_DETACH_FILTER
    IF sk.locked THEN SysErr(Errno.EPERM, sk.filter)
    ELSE IF ~sk.filter.set THEN SysErr(Errno.ENOENT, sk.filter)
    ELSE SysOk(NoFilter)

\* libc::ioctl(fd, BIOCSETF, arg) on FreeBSD / macOS.  The kernel reads
\* struct bpf_program {u_int bf_len; bf_insns}: the 16-bit len and the two
\* bytes after it, which BPFFProg leaves as uninitialised padding (pad).
ioctl(sk, mem, arg, pad) ==
  IF ~sk.open THEN SysErr(Errno.EBADF, sk.filter)
  ELSE IF sk.locked THEN SysErr(Errno.EPERM, sk.filter)
  ELSE LET flen == arg.len + U16 * pad IN
    IF flen > Limits.bsd_BPF_MAXINSNS THEN SysErr(Errno.EINVAL, sk.filter)
    ELSE IF flen = 0 THEN SysOk(NoFilter)
    ELSE LET f == View(mem, arg) IN
      IF Faults(f) \/ ~bsd_validate(f) THEN SysErr(Errno.EINVAL, sk.filter)
      ELSE SysOk(Installed(f))

----------------------------------------------------------------------------
(* linux.rs and bsd.rs: the wrappers *)

Ok == [ok |-> TRUE, err |-> 0]
Err(e) == [ok |-> FALSE, err |-> e]

match_rc_le(r) == IF r.rc <= 0 THEN Ok ELSE Err(r.rc)

\* match rc { 0 => Ok(()), errno => Err(errno) }: the second arm binds the
\* value matched, the return value of the call
match_rc(r) == IF r.rc = 0 THEN Ok ELSE Err(r.rc)

\* what a wrapper did: the system calls it issued, in order, and its result
Outcome(calls, res) == [calls |-> calls, res |-> res]

linux_attach_filter_unchecked(self, sk, mem, nomem) ==
  LET r == setsockopt(sk, mem, "SO_ATTACH_FILTER", self, size_of_BPFFProg, nomem)
  IN Outcome(<<r>>, Ok)

\* linux.rs: BPFFProg::attach_filter
linux_attach_filter(self, sk, mem, nomem) ==
  LET r == setsockopt(sk, mem, "SO_ATTACH_FILTER", self, size_of_BPFFProg, nomem)
  IN Outcome(<<r>>, match_rc(r))

detach_filter_ok(sk, mem) ==
  LET r == setsockopt(sk, mem, "SO_DETACH_FILTER", null, 0, FALSE)
  IN Outcome(<<r>>, Ok)

\* linux.rs: detach_filter
detach_filter(sk, mem) ==
  LET r == setsockopt(sk, mem, "SO_DETACH_FILTER", null, 0, FALSE)
  IN Outcome(<<r>>, match_rc(r))

\* bsd.rs: BPFFProg::attach_filter
bsd_attach_filter(self, sk, mem, pad) ==
  LET r == ioctl(sk, mem, self, pad)
  IN Outcome(<<r>>, match_rc(r))

----------------------------------------------------------------------------
(* Bounds *)

\* opcode composition
MaxFrags == 3
Imms     == {U32(0, 0), U32(0, 6), U32(0, 58), U32(U16 - 1, U16 - 1)}
Offs     == {0, 1, 3, U8 - 1}

\* program descriptor
MaxLen  == 3
MaxBody == 2
Bases   == {16, 4096}

Lens   == (0..MaxLen) \cup ((U16 - 1 - MaxLen)..(U16 + MaxLen))
Bodies == UNION {[1..n -> ExampleInsns] : n \in 1..MaxBody}
Slices == [base : Bases, n : Lens, body : Bodies]

\* attachment
Socks      == {"s1", "s2"}
MaxSockLen == 2
Envs       == {0, 1}
Ld6        == bpf_stmt(bitor(bitor(LD, B), ABS), U32(0, 6))
Jeq58      == bpf_jump(bitor(bitor(JMP, JEQ), K), U32(0, 58), 0, 1)
RetAll     == bpf_stmt(bitor(RET, K), U32(U16 - 1, U16 - 1))
Ret0       == bpf_stmt(bitor(RET, K), U32(0, 0))
SockInsns  == {Ld6, Jeq58, RetAll, Ret0}
SockLens   == (0..MaxSockLen) \cup {U16 - 1, U16, U16 + 1}
SockBodies == { <<Ret0>>, <<Ld6>>, <<Ld6, RetAll>>, <<RetAll, Ld6>>,
                <<Jeq58, Ret0>>, <<Jeq58, RetAll, Ret0>> }
SockSlices == [base : {16}, n : SockLens, body : SockBodies]

----------------------------------------------------------------------------
(* Opcode composition and instruction builders *)

\* the parts a specification does not exercise stay at rest
CodeIdle ==
  /\ cls = LD
  /\ code = LD
  /\ frags = << >>
  /\ call = NoCall
  /\ insn = NoInsn

ProgIdle ==
  /\ slice = [base |-> 16, n |-> 0, body |-> <<bpf_stmt(bitor(RET, K), U32(0, 0))>>]
  /\ prog = NoProg

NoLast == [op |-> "none", sock |-> "s1", rc |-> 0, errno |-> 0, res |-> Ok,
           pre |-> [s \in Socks |-> NoFilter], nsys |-> 0]
NoPrev == [op |-> "none", sock |-> "s1", ok |-> TRUE]

SockIdle ==
  /\ variant = "linux"
  /\ socks = [s \in Socks |-> [open |-> TRUE, locked |-> FALSE, filter |-> NoFilter]]
  /\ last = NoLast
  /\ prev = NoPrev
  /\ expected = [s \in Socks |-> NoFilter]

InitCode ==
  /\ cls \in Classes
  /\ code = cls
  /\ frags = << >>
  /\ call = NoCall
  /\ insn = NoInsn
  /\ ProgIdle
  /\ SockIdle

\* code | m, for a pairing the type system accepts
Compose ==
  /\ insn = NoInsn
  /\ Len(frags) < MaxFrags
  /\ \E m \in Modifiers :
       /\ <<code.ty, m.ty>> \in add_op
       /\ code' = bitor(code, m)
       /\ frags' = Append(frags, m)
  /\ UNCHANGED <<cls, call, insn, progVars, sockVars>>

\* BPFFilter::bpf_stmt(code, k)
Stmt ==
  /\ insn = NoInsn
  /\ code.ty \in add_inst
  /\ \E k \in Imms :
       /\ insn' = bpf_stmt(code, k)
       /\ call' = [op |-> "bpf_stmt", k |-> k, jt |-> 0, jf |-> 0]
  /\ UNCHANGED <<cls, code, frags, progVars, sockVars>>

\* BPFFilter::bpf_jump(code, k, jt, jf)
Jump ==
  /\ insn = NoInsn
  /\ code.ty = "BPFJmp"
  /\ \E k \in Imms, jt \in Offs, jf \in Offs :
       /\ insn' = bpf_jump(code, k, jt, jf)
       /\ call' = [op |-> "bpf_jump", k |-> k, jt |-> jt, jf |-> jf]
  /\ UNCHANGED <<cls, code, frags, progVars, sockVars>>

NextCode == Compose \/ Stmt \/ Jump

SpecCode == InitCode /\ [][NextCode]_vars

----------------------------------------------------------------------------
(* Program descriptor *)

InitProg ==
  /\ CodeIdle
  /\ SockIdle
  /\ slice \in Slices
  /\ prog = NoProg

\* let program = BPFFProg::new(&filters)
New ==
  /\ prog = NoProg
  /\ prog' = new(slice)
  /\ UNCHANGED <<codeVars, slice, sockVars>>

NextProg == New

SpecProg == InitProg /\ [][NextProg]_vars

----------------------------------------------------------------------------
(* Attachment *)

SockStates ==
  {k \in [open : BOOLEAN, locked : BOOLEAN, filter : {NoFilter}] :
     k.locked => k.open}

InitSock ==
  /\ CodeIdle
  /\ ProgIdle
  /\ variant \in {"linux", "bsd"}
  /\ socks \in [Socks -> SockStates]
  /\ last = NoLast
  /\ prev = NoPrev
  /\ expected = [s \in Socks |-> NoFilter]

Record(op, s, o) ==
  LET r == o.calls[Len(o.calls)] IN
  /\ socks' = [socks EXCEPT ![s].filter = r.filter]
  /\ last' = [op |-> op, sock |-> s, rc |-> r.rc, errno |-> r.errno,
              res |-> o.res, pre |-> [t \in Socks |-> socks[t].filter],
              nsys |-> Len(o.calls)]
  /\ prev' = [op |-> last.op, sock |-> last.sock, ok |-> last.res.ok]

\* BPFFProg::new(&filters).attach_filter(&socket)
Attach ==
  \E s \in Socks, sl \in SockSlices, env \in Envs :
    LET p == new(sl)
        nomem == env = 1 /\ variant = "linux"
        pad == IF variant = "bsd" THEN env ELSE 0
        o == IF variant = "linux"
               THEN linux_attach_filter(p, socks[s], sl, nomem)
               ELSE bsd_attach_filter(p, socks[s], sl, pad)
    IN /\ Record("attach", s, o)
       /\ expected' = IF o.res.ok
                        THEN [expected EXCEPT ![s] = Installed(View(sl, p))]
                        ELSE expected
       /\ UNCHANGED <<codeVars, progVars, variant>>

\* detach_filter(&socket); linux.rs only
Detach ==
  \E s \in Socks :
    LET o == detach_filter(socks[s], slice)
    IN /\ variant = "linux"
       /\ Record("detach", s, o)
       /\ expected' = IF o.res.ok THEN [expected EXCEPT ![s] = NoFilter]
                      ELSE expected
       /\ UNCHANGED <<codeVars, progVars, variant>>

NextSock == Attach \/ Detach

SpecSock == InitSock /\ [][NextSock]_vars

----------------------------------------------------------------------------
(* Properties of opcode composition and of the instruction builders *)

\* the set of bit positions set in a 16-bit value
Bits(n) == {i \in 0..15 : (n \div (2 ^ i)) % 2 = 1}

FragBits == UNION {Bits(frags[i].v) : i \in 1..Len(frags)}

\* C1: the composed opcode is the bitwise OR of the class fragment and of
\* every modifier fragment or-ed in: a bit is set in the result exactly when
\* it is set in one of the fragments; LD | B | ABS is 0x30 and
\* JMP | JEQ | K is 0x15.
C1_ComposedIsOr ==
  /\ code.v \in 0..(U16 - 1)
  /\ Bits(code.v) = Bits(cls.v) \cup FragBits
  /\ (cls = LD /\ frags = <<B, ABS>>) => code.v = 48
  /\ (cls = JMP /\ frags = <<JEQ, K>>) => code.v = 21

\* two overlapping modifiers were or-ed in (where | and + differ)
C1_Witness ==
  /\ cls = LD /\ frags = <<H, H, ABS>> /\ code.v = 40

\* the bit range of a modifier kind: the union of the bits of its members
RECURSIVE OrAll(_)
OrAll(S) == IF S = {} THEN 0
            ELSE LET x == CHOOSE y \in S : TRUE IN BitOr(x, OrAll(S \ {x}))

KindValues(t) == {m.v : m \in {f \in Modifiers : f.ty = t}}
KindMask(t)   == OrAll(KindValues(t))
KindsOf(ity)  == {t \in {m.ty : m \in Modifiers} : <<ity, t>> \in add_op}

\* the closed enumeration of a bit range: BPFSrc and BPFRetSrc share the
\* operand-source range of a return
LegalIn(ity, t) ==
  IF ity = "BPFRet" THEN KindValues("BPFSrc") \cup KindValues("BPFRetSrc")
  ELSE KindValues(t)

\* C7: every opcode the typed operator | can produce keeps the class in its
\* low 3 bits and holds, in each modifier bit range of its class, a member of
\* that range's enumeration of legal values.
C7_OnlyLegalOpcodes ==
  /\ code.v % 8 = cls.v
  /\ \A t \in KindsOf(code.ty) :
       BitAnd(code.v, KindMask(t)) \in LegalIn(code.ty, t)

\* C8: bpf_stmt(c, k) is {code: value of c, jt: 0, jf: 0, k: k};
\* bpf_stmt(LD | B | ABS, 6) is {0x30, 0, 0, 6}.
C8_StmtFields ==
  call.op = "bpf_stmt" =>
    /\ insn.code = code.v /\ insn.jt = 0 /\ insn.jf = 0 /\ insn.k = call.k
    /\ (cls = LD /\ frags = <<B, ABS>> /\ call.k = U32(0, 6)) =>
         insn = [code |-> 48, jt |-> 0, jf |-> 0, k |-> U32(0, 6)]

C8_Witness ==
  /\ call.op = "bpf_stmt" /\ cls = LD /\ frags = <<B, ABS>> /\ call.k = U32(0, 6)
  /\ insn.code = 48

\* C9: bpf_jump(c, k, jt, jf) is {code: value of c, jt: jt, jf: jf, k: k};
\* bpf_jump(JMP | JEQ | K, 0x3A, 0, 3) is {0x15, 0, 3, 0x3A}.
C9_JumpFields ==
  call.op = "bpf_jump" =>
    /\ insn.code = code.v /\ insn.jt = call.jt /\ insn.jf = call.jf
    /\ insn.k = call.k
    /\ (cls = JMP /\ frags = <<JEQ, K>> /\ call.k = U32(0, 58) /\ call.jt = 0
        /\ call.jf = 3) =>
         insn = [code |-> 21, jt |-> 0, jf |-> 3, k |-> U32(0, 58)]

C9_Witness ==
  /\ call.op = "bpf_jump" /\ cls = JMP /\ frags = <<JEQ, K>>
  /\ call.k = U32(0, 58) /\ call.jt = 0 /\ call.jf = 3 /\ insn.jf = 3

\* C2: for a source array of length L with 1 <= L <= 65535, the program
\* built by new records the length L and its instruction view is the source
\* array, element for element and in order.
C2_RoundTrip ==
  (prog # NoProg /\ slice.n >= 1 /\ slice.n <= U16 - 1) =>
    /\ prog.len = slice.n
    /\ \A i \in 0..(slice.n - 1) : ReadInsn(slice, prog, i) = Elem(slice, i)

\* a program built from the longest array the length field can describe
C2_Witness ==
  /\ prog # NoProg /\ slice.n = U16 - 1 /\ prog.len = U16 - 1
  /\ Len(slice.body) = 2 /\ slice.body[1] # slice.body[2]

\* C3: building a program from an empty array, or from one longer than
\* 65535, fails (no program is produced), and no program is produced whose
\* recorded length differs from the length of its source array.
C3_ConstructionFails ==
  /\ (slice.n = 0 \/ slice.n > U16 - 1) => prog = NoProg
  /\ prog # NoProg => prog.len = slice.n

----------------------------------------------------------------------------
(* Properties of the attachment layer *)

\* C4: a wrapper returns Ok exactly when its system call returned zero, and
\* when the call returned non-zero the Err value is the errno the call set.
C4_ErrIsErrno ==
  last.op # "none" =>
    /\ last.res.ok <=> last.rc = 0
    /\ last.rc # 0 => last.res.err = last.errno

C6_FailedAttach ==
  last.op = "attach" =>
    /\ ~socks[last.sock].open => (~last.res.ok /\ last.res.err # 0)
    /\ ~last.res.ok =>
         /\ \A t \in Socks : socks[t].filter = last.pre[t]
         /\ last.nsys = 1

\* a failed attach on a closed socket while another socket has a filter
C6_Witness ==
  /\ last.op = "attach" /\ ~socks[last.sock].open /\ ~last.res.ok
  /\ last.nsys = 1
  /\ \E t \in Socks : socks[t].filter.set

DetachOnNone ==
  /\ variant = "linux" /\ last.op = "detach"
  /\ socks[last.sock].open
  /\ ~last.pre[last.sock].set

TwoDetaches ==
  /\ variant = "linux" /\ last.op = "detach" /\ prev.op = "detach"
  /\ prev.sock = last.sock /\ socks[last.sock].open

====
